---- MODULE Spec2Model ----
(***************************************************************************)
(* wcm-graph: the in-memory dependency graph.                              *)
(*                                                                         *)
(* Node and relation storage are two WeakMaps keyed by the graph instance  *)
(* (storage/nodes, storage/relations).  Every access to a stored map goes  *)
(* through makeCaseInsensitive, a Proxy whose get / set /                  *)
(* getOwnPropertyDescriptor traps lower-case the property name             *)
(* (utilities).  AbstractInternalGraph and DependencyGraph are the         *)
(* operations on top of them.                                              *)
(*                                                                         *)
(* A JavaScript string is a sequence of one-character strings; a plain     *)
(* JavaScript object is a record [props |-> <<[key, value], ...>>] whose   *)
(* props are in property-creation order.                                   *)
(***************************************************************************)
EXTENDS Integers, Sequences, FiniteSets, TLC

VARIABLES nodesMap, relationsMap, added, marked, last,
          metadata, token, parsed, installed

vars == <<nodesMap, relationsMap, added, marked, last,
          metadata, token, parsed, installed>>

(* What the static methods of AbstractBaseGraph work on *)
metaVars == <<metadata, token, parsed>>

(* What the ingestion of a project works on *)
ingestVars == <<installed>>

----------------------------------------------------------------------------
(* Bounds of the model *)

(* The nodes, edges and implied aliases in existence, and the graph        *)
(* instances beyond the first                                              *)
MaxItems == 3

(* Inputs of the operations *)

Names == {<<"a">>, <<"A">>, <<"1">>}
Data == {"manifest"}
Versions == {"1.0", "^2"}

----------------------------------------------------------------------------
(* JavaScript strings *)

UpperChars == <<"A", "B">>
LowerChars == <<"a", "b">>

toLowerCaseChar(c) ==
  IF \E i \in 1..Len(UpperChars) : UpperChars[i] = c
  THEN LowerChars[CHOOSE i \in 1..Len(UpperChars) : UpperChars[i] = c]
  ELSE c

toLowerCase(s) == [i \in 1..Len(s) |-> toLowerCaseChar(s[i])]

Digits == <<"0", "1", "2", "3", "4", "5", "6", "7", "8", "9">>

IsDigit(c) == \E i \in 1..Len(Digits) : Digits[i] = c

DigitValue(c) == (CHOOSE i \in 1..Len(Digits) : Digits[i] = c) - 1

(* An array index: a canonical numeric string ("0", "1", "10", not "01") *)
IsArrayIndex(k) ==
  /\ Len(k) >= 1
  /\ \A i \in 1..Len(k) : IsDigit(k[i])
  /\ (Len(k) > 1 => k[1] # "0")

RECURSIVE IndexValue(_)
IndexValue(k) ==
  IF Len(k) = 0 THEN 0
  ELSE 10 * IndexValue(SubSeq(k, 1, Len(k) - 1)) + DigitValue(k[Len(k)])

----------------------------------------------------------------------------
(* Plain JavaScript objects *)

EmptyObject == [props |-> <<>>]

Undefined == [undefined |-> TRUE]

KeyList(o) == [i \in 1..Len(o.props) |-> o.props[i].key]

hasOwnProperty(o, k) == \E i \in 1..Len(o.props) : o.props[i].key = k

(* o[k] for a plain object (own properties only) *)
PropertyGet(o, k) ==
  IF hasOwnProperty(o, k)
  THEN o.props[CHOOSE i \in 1..Len(o.props) : o.props[i].key = k].value
  ELSE Undefined

(* o[k] = v for a plain object: an existing property keeps its place *)
PropertySet(o, k, v) ==
  IF hasOwnProperty(o, k)
  THEN [props |-> [i \in 1..Len(o.props) |->
                     IF o.props[i].key = k THEN [key |-> k, value |-> v]
                     ELSE o.props[i]]]
  ELSE [props |-> Append(o.props, [key |-> k, value |-> v])]

RECURSIVE SortedIndexKeys(_)
SortedIndexKeys(S) ==
  IF S = {} THEN <<>>
  ELSE LET m == CHOOSE x \in S : \A y \in S : IndexValue(x) <= IndexValue(y)
       IN <<m>> \o SortedIndexKeys(S \ {m})

(* The own keys of an object in the order of Object.keys / for-in: array   *)
(* indices ascending, then the other keys in creation order                *)
OwnKeys(o) ==
  LET ks == KeyList(o)
      idx == {ks[i] : i \in {j \in 1..Len(ks) : IsArrayIndex(ks[j])}}
  IN SortedIndexKeys(idx) \o SelectSeq(ks, LAMBDA k : ~IsArrayIndex(k))

----------------------------------------------------------------------------
(* utilities: the case-insensitive Proxy over a stored map *)

(* get trap: target[prop.toLowerCase()] *)
caseInsensitivePropGet(target, prop) == PropertyGet(target, toLowerCase(prop))

(* A set trap that keeps the case of prop *)
propSetAsGiven(target, prop, value) ==
  PropertySet(target, prop, value)

(* set trap: target[prop.toLowerCase()] = value *)
caseInsensitivePropSet(target, prop, value) ==
  PropertySet(target, toLowerCase(prop), value)

(* A descriptor trap that keeps the case of prop *)
propDescriptorAsGiven(target, prop) ==
  hasOwnProperty(target, prop)

(* getOwnPropertyDescriptor trap: TRUE when a descriptor is returned *)
caseInsensitivePropDescriptor(target, prop) ==
  hasOwnProperty(target, toLowerCase(prop))

(* Object.keys / for-in over the Proxy: the target's own keys (there is no *)
(* ownKeys trap), each kept when the descriptor trap reports it enumerable *)
ProxyKeys(target) ==
  SelectSeq(OwnKeys(target), LAMBDA k : caseInsensitivePropDescriptor(target, k))

(* ramda keys on a plain object; keys(undefined) is [] *)
keys(o) == IF o = Undefined THEN <<>> ELSE OwnKeys(o)

(* ramda contains on an array *)
contains(x, list) == \E i \in 1..Len(list) : list[i] = x

----------------------------------------------------------------------------
(* storage/nodes and storage/relations, on the map stored for one graph *)

nodeExists(nodes, name) == caseInsensitivePropDescriptor(nodes, name)

getNode(nodes, name) == caseInsensitivePropGet(nodes, name)

setNode(nodes, name, data) == caseInsensitivePropSet(nodes, name, data)

getRelation(relations, name) == caseInsensitivePropGet(relations, name)

setRelation(relations, name, data) ==
  caseInsensitivePropSet(relations, name, data)

relationExists(relations, a, b) ==
  contains(b, keys(getRelation(relations, a)))

----------------------------------------------------------------------------
(* Errors *)

NoError == [kind |-> "none"]

nodeAlreadyExistsErr(name) == [kind |-> "AlreadyExists", name |-> name]

noNodeFoundErr(name) == [kind |-> "NotFound", name |-> name]

versionAlreadyExistsErr(name, version) ==
  [kind |-> "VersionAlreadyExists", name |-> name, version |-> version]

TypeError == [kind |-> "TypeError"]

(* The outcome of a call on a graph G = [nodes, relations] *)
Threw(G, e) == [error |-> e, nodes |-> G.nodes, relations |-> G.relations]

Done(nodes, relations) ==
  [error |-> NoError, nodes |-> nodes, relations |-> relations]

(* The graph a call with outcome r leaves *)
After(r) == [nodes |-> r.nodes, relations |-> r.relations]

----------------------------------------------------------------------------
(* AbstractInternalGraph, on a graph G = [nodes, relations] *)

(* addInternalNode without the nodeExists check *)
addInternalNodeUnchecked(G, name, data) ==
  Done(setNode(G.nodes, name, data), setRelation(G.relations, name, EmptyObject))

addInternalNode(G, name, data) ==
  IF nodeExists(G.nodes, name)
  THEN Threw(G, nodeAlreadyExistsErr(name))
  ELSE Done(setNode(G.nodes, name, data),
            setRelation(G.relations, name, EmptyObject))

(* An IGraphNode a caller hands to addInternalNode: name and data, without *)
(* the optional version and aliases                                        *)
NodeObject(name, d) == [name |-> name, data |-> d]

(* The outcome of a query: an error, or a returned value *)
Throws(e) == [error |-> e]

Returns(v) == [error |-> NoError, value |-> v]

(* getInternalNode without the nodeExists check *)
getInternalNodeUnchecked(G, name) == Returns(getNode(G.nodes, name))

getInternalNode(G, name) ==
  IF nodeExists(G.nodes, name)
  THEN Returns(getNode(G.nodes, name))
  ELSE Throws(noNodeFoundErr(name))

hasInternalNode(G, name) == nodeExists(G.nodes, name)

listInternalNodes(G) == ProxyKeys(G.nodes)

(* markInternalDependency checking [to, from] *)
markInternalDependencyToFirst(G, from, to, data) ==
  IF ~nodeExists(G.nodes, to) THEN Threw(G, noNodeFoundErr(to))
  ELSE IF ~nodeExists(G.nodes, from) THEN Threw(G, noNodeFoundErr(from))
  ELSE Done(G.nodes,
            setRelation(G.relations, from,
                        PropertySet(getRelation(G.relations, from), to, data)))

(* markInternalDependency checking from only *)
markInternalDependencyToUnchecked(G, from, to, data) ==
  IF ~nodeExists(G.nodes, from) THEN Threw(G, noNodeFoundErr(from))
  ELSE Done(G.nodes,
            setRelation(G.relations, from,
                        PropertySet(getRelation(G.relations, from), to, data)))

(* markInternalDependency writing the edge before it checks to *)
markInternalDependencyWritingFirst(G, from, to, data) ==
  IF ~nodeExists(G.nodes, from) THEN Threw(G, noNodeFoundErr(from))
  ELSE IF ~nodeExists(G.nodes, to)
       THEN [error |-> noNodeFoundErr(to), nodes |-> G.nodes,
             relations |-> setRelation(G.relations, from,
                             PropertySet(getRelation(G.relations, from), to, data))]
  ELSE Done(G.nodes,
            setRelation(G.relations, from,
                        PropertySet(getRelation(G.relations, from), to, data)))

(* map(unless(nodeExists, noNodeFoundErr))([from, to]) throws at the first *)
(* missing name; then getRelation(from)[to] = data writes into the bucket  *)
(* object that the relation map holds for from                             *)
markInternalDependency(G, from, to, data) ==
  IF ~nodeExists(G.nodes, from) THEN Threw(G, noNodeFoundErr(from))
  ELSE IF ~nodeExists(G.nodes, to) THEN Threw(G, noNodeFoundErr(to))
  ELSE IF getRelation(G.relations, from) = Undefined THEN Threw(G, TypeError)
  ELSE Done(G.nodes,
            setRelation(G.relations, from,
                        PropertySet(getRelation(G.relations, from), to, data)))

hasInternalDependency(G, from, to) == relationExists(G.relations, from, to)

(* Returns whatever the relation map holds: undefined for an unknown name *)
listInternalDependencies(G, of) == Returns(getRelation(G.relations, of))

(* mapObjIndexed(prop(of), pickBy((y) => contains(of, keys(y)), relations)) *)
listInternalDependants(G, of) ==
  LET picked == SelectSeq(ProxyKeys(G.relations),
                  LAMBDA k : contains(of, keys(caseInsensitivePropGet(G.relations, k))))
  IN [props |-> [i \in 1..Len(picked) |->
        [key |-> picked[i],
         value |-> PropertyGet(caseInsensitivePropGet(G.relations, picked[i]), of)]]]

----------------------------------------------------------------------------
(* DependencyGraph *)

listDependencies(G) == listInternalNodes(G)

(* addRealDependency storing no alias for the root version *)
addRealDependencyNoAlias(G, name, version, data) ==
  addInternalNode(G, name,
    [name |-> name, data |-> data, version |-> version, aliases |-> <<>>])

addRealDependency(G, name, version, data) ==
  addInternalNode(G, name,
    [name |-> name, data |-> data, version |-> version, aliases |-> <<version>>])

versionExists(G, name, version) ==
  contains(version, getInternalNode(G, name).value.aliases)

(* addImpliedDependency putting the version in front of the aliases *)
addImpliedDependencyPrepending(G, name, version) ==
  LET n == getInternalNode(G, name)
  IN IF n.error # NoError THEN Threw(G, n.error)
     ELSE IF "aliases" \notin DOMAIN n.value THEN Threw(G, TypeError)
     ELSE IF versionExists(G, name, version)
          THEN Threw(G, versionAlreadyExistsErr(name, version))
     ELSE Done(PropertySet(G.nodes, toLowerCase(name),
                 [n.value EXCEPT !.aliases = <<version>> \o @]),
               G.relations)

(* addImpliedDependency putting the version in place of the aliases *)
addImpliedDependencyReplacing(G, name, version) ==
  LET n == getInternalNode(G, name)
  IN IF n.error # NoError THEN Threw(G, n.error)
     ELSE IF "aliases" \notin DOMAIN n.value THEN Threw(G, TypeError)
     ELSE IF versionExists(G, name, version)
          THEN Threw(G, versionAlreadyExistsErr(name, version))
     ELSE Done(PropertySet(G.nodes, toLowerCase(name),
                 [n.value EXCEPT !.aliases = <<version>>]),
               G.relations)

(* addImpliedDependency making the version the node's version as well *)
addImpliedDependencyRetargeting(G, name, version) ==
  LET n == getInternalNode(G, name)
  IN IF n.error # NoError THEN Threw(G, n.error)
     ELSE IF "aliases" \notin DOMAIN n.value THEN Threw(G, TypeError)
     ELSE IF versionExists(G, name, version)
          THEN Threw(G, versionAlreadyExistsErr(name, version))
     ELSE Done(PropertySet(G.nodes, toLowerCase(name),
                 [n.value EXCEPT !.aliases = Append(@, version),
                                 !.version = version]),
               G.relations)

(* addImpliedDependency without the versionExists check *)
addImpliedDependencyUnchecked(G, name, version) ==
  LET n == getInternalNode(G, name)
  IN IF n.error # NoError THEN Threw(G, n.error)
     ELSE IF "aliases" \notin DOMAIN n.value THEN Threw(G, TypeError)
     ELSE Done(PropertySet(G.nodes, toLowerCase(name),
                 [n.value EXCEPT !.aliases = Append(@, version)]),
               G.relations)

(* addImpliedDependency creating the node it does not find *)
addImpliedDependencyCreating(G, name, version) ==
  LET n == getInternalNode(G, name)
  IN IF n.error # NoError
     THEN addInternalNode(G, name,
            [name |-> name, data |-> Undefined, version |-> version,
             aliases |-> <<version>>])
     ELSE IF "aliases" \notin DOMAIN n.value THEN Threw(G, TypeError)
     ELSE IF versionExists(G, name, version)
          THEN Threw(G, versionAlreadyExistsErr(name, version))
     ELSE Done(PropertySet(G.nodes, toLowerCase(name),
                 [n.value EXCEPT !.aliases = Append(@, version)]),
               G.relations)

(* pushToArray pushes onto the aliases array the node object holds *)
addImpliedDependency(G, name, version) ==
  LET n == getInternalNode(G, name)
  IN IF n.error # NoError THEN Threw(G, n.error)
     ELSE IF "aliases" \notin DOMAIN n.value THEN Threw(G, TypeError)
     ELSE IF versionExists(G, name, version)
          THEN Threw(G, versionAlreadyExistsErr(name, version))
     ELSE Done(PropertySet(G.nodes, toLowerCase(name),
                 [n.value EXCEPT !.aliases = Append(@, version)]),
               G.relations)

getDependencyData(G, name) ==
  LET n == getInternalNode(G, name)
  IN IF n.error # NoError THEN n ELSE Returns(n.value.data)

getDependencyVersion(G, name) ==
  LET n == getInternalNode(G, name)
  IN IF n.error # NoError THEN n
     ELSE IF "version" \in DOMAIN n.value THEN Returns(n.value.version)
     ELSE Returns(Undefined)

getDependencyAliases(G, name) ==
  LET n == getInternalNode(G, name)
  IN IF n.error # NoError THEN n
     ELSE IF "aliases" \in DOMAIN n.value THEN Returns(n.value.aliases)
     ELSE Returns(Undefined)

(* createInterDependency marking the edge from to.name to from *)
createInterDependencyReversed(G, from, to) ==
  markInternalDependency(G, to.name, from, to.version)

createInterDependency(G, from, to) ==
  markInternalDependency(G, from, to.name, to.version)

listDependenciesOfDependency(G, name) == listInternalDependencies(G, name)

listDependantsOfDependency(G, name) == listInternalDependants(G, name)

----------------------------------------------------------------------------
(* AbstractBaseGraph: the static methods on dependency metadata *)

(* ramda values: the own values of an object in key order *)
values(o) == [i \in 1..Len(OwnKeys(o)) |-> PropertyGet(o, OwnKeys(o)[i])]

(* ramda join: the strings of list with sep between them *)
RECURSIVE join(_, _)
join(sep, list) ==
  IF Len(list) = 0 THEN <<>>
  ELSE IF Len(list) = 1 THEN list[1]
  ELSE list[1] \o sep \o join(sep, Tail(list))

(* ramda split at a one-character pattern: the pieces between its matches *)
RECURSIVE split(_, _)
split(sep, value) ==
  IF \E i \in 1..Len(value) : value[i] = sep
  THEN LET i == CHOOSE k \in 1..Len(value) :
                  value[k] = sep /\ \A j \in 1..(k - 1) : value[j] # sep
       IN <<SubSeq(value, 1, i - 1)>> \o split(sep, SubSeq(value, i + 1, Len(value)))
  ELSE <<value>>

(* split cutting at the first match only *)
splitAtFirst(sep, value) ==
  IF \E i \in 1..Len(value) : value[i] = sep
  THEN LET i == CHOOSE k \in 1..Len(value) :
                  value[k] = sep /\ \A j \in 1..(k - 1) : value[j] # sep
       IN <<SubSeq(value, 1, i - 1), SubSeq(value, i + 1, Len(value))>>
  ELSE <<value>>

(* ramda zipObj: keys paired with values, as far as the shorter list goes *)
RECURSIVE zipObj(_, _)
zipObj(ks, vs) ==
  IF Len(ks) = 0 \/ Len(vs) = 0 THEN EmptyObject
  ELSE LET n == IF Len(ks) < Len(vs) THEN Len(ks) ELSE Len(vs)
       IN PropertySet(zipObj(SubSeq(ks, 1, n - 1), SubSeq(vs, 1, n - 1)),
                      ks[n], vs[n])

(* The object literal {name, version} *)
DependencyMetadata(name, version) ==
  [props |-> <<[key |-> <<"n", "a", "m", "e">>, value |-> name],
               [key |-> <<"v", "e", "r", "s", "i", "o", "n">>, value |-> version]>>]

(* stringifyDependencyMetadata joining the values last to first *)
stringifyDependencyMetadataReversed(opts) ==
  join(<<"@">>, [i \in 1..Len(values(opts)) |->
                   values(opts)[Len(values(opts)) + 1 - i]])

(* compose(join("@"), values)(opts) *)
stringifyDependencyMetadata(opts) == join(<<"@">>, values(opts))

(* parseDependencyMetadata cutting at the first "@" only *)
parseDependencyMetadataAtFirst(value) ==
  zipObj(KeyList(DependencyMetadata(<<>>, <<>>)), splitAtFirst("@", value))

(* compose(zipObj(["name", "version"]), split(/@/))(value) *)
parseDependencyMetadata(value) ==
  zipObj(KeyList(DependencyMetadata(<<>>, <<>>)), split("@", value))

----------------------------------------------------------------------------
(* index: building the graph of a project's declared dependencies.  A      *)
(* dependency JSON is a record [name, version, dependencies], dependencies *)
(* an object from the name of a declared dependency to its version range.  *)

listAllRealDependencies(G) == listInternalNodes(G)

(* firstDefinedProperty(["version", "_release"]) of a JSON holding version *)
getDependencyMetadata(dependencyJson) ==
  [name |-> dependencyJson.name, version |-> dependencyJson.version]

(* ramda toPairs: the [key, value] pairs of an object in key order *)
toPairs(o) == [i \in 1..Len(keys(o)) |-> <<keys(o)[i], PropertyGet(o, keys(o)[i])>>]

getDependencyPairs(dependencyJson) == toPairs(dependencyJson.dependencies)

(* The for loop of registerDeclaredDependencies over the JSON files read;  *)
(* a throw of addRealDependency ends it                                    *)
RECURSIVE registerDeclaredDependencies(_, _)
registerDeclaredDependencies(G, jsons) ==
  IF Len(jsons) = 0 THEN Done(G.nodes, G.relations)
  ELSE LET m == getDependencyMetadata(jsons[1])
           r == addRealDependency(G, m.name, m.version, jsons[1])
       IN IF r.error # NoError THEN r
          ELSE registerDeclaredDependencies(After(r), Tail(jsons))

(* dependencyGraph.getDependencyData handed to compose as a bare function: *)
(* map calls it without a receiver, and this.getInternalNode is a property *)
(* read on undefined                                                       *)
getDependencyDataDetached(G, name) == Throws(TypeError)

(* unnest(map(compose(getDependencyPairs, dependencyGraph.getDependencyData)) *)
(* (names))                                                                *)
RECURSIVE mapDependencyPairs(_, _)
mapDependencyPairs(G, names) ==
  IF Len(names) = 0 THEN Returns(<<>>)
  ELSE LET d == getDependencyDataDetached(G, names[1])
           rest == mapDependencyPairs(G, Tail(names))
       IN IF d.error # NoError THEN d
          ELSE IF rest.error # NoError THEN rest
          ELSE Returns(getDependencyPairs(d.value) \o rest.value)

getAllDependencyPairs(G) == mapDependencyPairs(G, listAllRealDependencies(G))

(* The for loop of registerImpliedDependencies over the pairs *)
RECURSIVE registerImpliedPairs(_, _)
registerImpliedPairs(G, pairs) ==
  IF Len(pairs) = 0 THEN Done(G.nodes, G.relations)
  ELSE LET name == pairs[1][1]
           version == pairs[1][2]
           aliases == getDependencyAliases(G, name)
       IN IF aliases.error # NoError THEN Threw(G, aliases.error)
          ELSE IF "aliases" \notin DOMAIN getInternalNode(G, name).value
               THEN Threw(G, TypeError)
          ELSE IF contains(version, aliases.value)
               THEN registerImpliedPairs(G, Tail(pairs))
          ELSE LET r == addImpliedDependency(G, name, version)
               IN IF r.error # NoError THEN r
                  ELSE registerImpliedPairs(After(r), Tail(pairs))

registerImpliedDependencies(G) ==
  LET pairs == getAllDependencyPairs(G)
  IN IF pairs.error # NoError THEN Threw(G, pairs.error)
     ELSE registerImpliedPairs(G, pairs.value)

(* The inner for loop of generateDeclaredDependenciesGraph *)
RECURSIVE createInterDependenciesOf(_, _, _)
createInterDependenciesOf(G, dependencyName, pairs) ==
  IF Len(pairs) = 0 THEN Done(G.nodes, G.relations)
  ELSE LET r == createInterDependency(G, dependencyName,
                  [name |-> pairs[1][1], version |-> pairs[1][2]])
       IN IF r.error # NoError THEN r
          ELSE createInterDependenciesOf(After(r), dependencyName, Tail(pairs))

(* The outer for loop of generateDeclaredDependenciesGraph over the names  *)
(* listed when it starts                                                   *)
RECURSIVE createInterDependencies(_, _)
createInterDependencies(G, names) ==
  IF Len(names) = 0 THEN Done(G.nodes, G.relations)
  ELSE LET dependencyData == getDependencyData(G, names[1])
       IN IF dependencyData.error # NoError THEN Threw(G, dependencyData.error)
          ELSE LET r == createInterDependenciesOf(G, names[1],
                          toPairs(dependencyData.value.dependencies))
               IN IF r.error # NoError THEN r
                  ELSE createInterDependencies(After(r), Tail(names))

----------------------------------------------------------------------------
(* The state machine.  nodesMap and relationsMap are the two WeakMaps,     *)
(* indexed by graph instance.  added, marked and last record what was      *)
(* called: added[g] the successful addInternalNode calls on g in order,    *)
(* marked[g] the most recent successful markInternalDependency call for    *)
(* every pair of nodes of g, last the latest call and its outcome.         *)

Graphs == DOMAIN nodesMap

Graph(g) == [nodes |-> nodesMap[g], relations |-> relationsMap[g]]

RECURSIVE SumSeq(_)
SumSeq(q) == IF Len(q) = 0 THEN 0 ELSE q[1] + SumSeq(Tail(q))

NodeCount(nodes) == Len(nodes.props)

EdgeCount(relations) ==
  SumSeq([i \in 1..Len(relations.props) |-> Len(relations.props[i].value.props)])

(* The aliases beyond the one a node is created with *)
ImpliedCount(nodes) ==
  SumSeq([i \in 1..Len(nodes.props) |->
            IF "aliases" \in DOMAIN nodes.props[i].value
            THEN Len(nodes.props[i].value.aliases) - 1 ELSE 0])

Items(nm, rm) ==
  SumSeq([g \in DOMAIN nm |->
            NodeCount(nm[g]) + ImpliedCount(nm[g]) + EdgeCount(rm[g])])

(* What exists: the items stored and the instances beyond the first *)
Size(nm, rm) == Items(nm, rm) + Len(nm) - 1

Call(op, e) == [op |-> op, error |-> e]

(* One graph has been constructed: setNodes(this, {}); setRelations(this, {}) *)
Init ==
  /\ nodesMap = <<EmptyObject>>
  /\ relationsMap = <<EmptyObject>>
  /\ added = << <<>> >>
  /\ marked = << {} >>
  /\ last = Call("constructor", NoError)
  /\ metadata = EmptyObject
  /\ token = <<>>
  /\ parsed = EmptyObject
  /\ installed = <<>>

(* One store shared by every instance: a write reaches all of them *)
StoreShared(g, r) ==
  /\ nodesMap' = [h \in DOMAIN nodesMap |-> r.nodes]
  /\ relationsMap' = [h \in DOMAIN relationsMap |-> r.relations]
  /\ Size(nodesMap', relationsMap') <= MaxItems

(* The stores after a call on g with outcome r *)
Store(g, r) ==
  /\ nodesMap' = [nodesMap EXCEPT ![g] = r.nodes]
  /\ relationsMap' = [relationsMap EXCEPT ![g] = r.relations]
  /\ Size(nodesMap', relationsMap') <= MaxItems

RecordAdded(g, r, name, data) ==
  added' = IF r.error = NoError
           THEN [added EXCEPT ![g] = Append(@, [name |-> name, data |-> data])]
           ELSE added

RecordMarked(g, r, from, to, data) ==
  marked' = IF r.error = NoError
            THEN [marked EXCEPT ![g] =
                    {m \in @ : ~(m.from = toLowerCase(from) /\ m.to = toLowerCase(to))}
                    \cup {[from |-> toLowerCase(from), to |-> toLowerCase(to),
                           data |-> data]}]
            ELSE marked

AddInternalNode ==
  \E g \in Graphs, name \in Names, d \in Data :
    LET data == NodeObject(name, d)
        r == addInternalNode(Graph(g), name, data)
    IN /\ Store(g, r)
       /\ RecordAdded(g, r, name, data)
       /\ UNCHANGED marked
       /\ last' = Call("addInternalNode", r.error)
       /\ UNCHANGED <<metaVars, ingestVars>>

AddRealDependency ==
  \E g \in Graphs, name \in Names, version \in Versions, d \in Data :
    LET r == addRealDependency(Graph(g), name, version, d)
    IN /\ Store(g, r)
       /\ RecordAdded(g, r, name, [name |-> name, data |-> d, version |-> version,
                                   aliases |-> <<version>>])
       /\ UNCHANGED marked
       /\ last' = Call("addRealDependency", r.error)
       /\ UNCHANGED <<metaVars, ingestVars>>

AddImpliedDependency ==
  \E g \in Graphs, name \in Names, version \in Versions :
    LET r == addImpliedDependency(Graph(g), name, version)
    IN /\ Store(g, r)
       /\ UNCHANGED <<added, marked>>
       /\ last' = Call("addImpliedDependency", r.error)
       /\ UNCHANGED <<metaVars, ingestVars>>

MarkInternalDependency ==
  \E g \in Graphs, from \in Names, to \in Names, data \in Versions :
    LET r == markInternalDependency(Graph(g), from, to, data)
    IN /\ Store(g, r)
       /\ RecordMarked(g, r, from, to, data)
       /\ UNCHANGED added
       /\ last' = Call("markInternalDependency", r.error)
       /\ UNCHANGED <<metaVars, ingestVars>>

CreateInterDependency ==
  \E g \in Graphs, from \in Names, name \in Names, version \in Versions :
    LET r == createInterDependency(Graph(g), from, [name |-> name, version |-> version])
    IN /\ Store(g, r)
       /\ RecordMarked(g, r, from, name, version)
       /\ UNCHANGED added
       /\ last' = Call("createInterDependency", r.error)
       /\ UNCHANGED <<metaVars, ingestVars>>

Next ==
  \/ AddInternalNode
  \/ AddRealDependency
  \/ AddImpliedDependency
  \/ MarkInternalDependency
  \/ CreateInterDependency

Spec == Init /\ [][Next]_vars

(* A graph used through the methods of DependencyGraph alone: every node  *)
(* is a real dependency                                                    *)
DependencyNext ==
  \/ AddRealDependency
  \/ AddImpliedDependency
  \/ CreateInterDependency

DependencySpec == Init /\ [][DependencyNext]_vars

(* A graph used through the methods of AbstractInternalGraph alone *)
InternalNext ==
  \/ AddInternalNode
  \/ MarkInternalDependency

InternalSpec == Init /\ [][InternalNext]_vars

----------------------------------------------------------------------------
(* Several DependencyGraph instances side by side, each used through the  *)
(* methods of DependencyGraph                                              *)

(* new DependencyGraph(): setNodes(this, {}); setRelations(this, {}) with  *)
(* a fresh key and two fresh objects                                       *)
Construct ==
  /\ nodesMap' = Append(nodesMap, EmptyObject)
  /\ relationsMap' = Append(relationsMap, EmptyObject)
  /\ Size(nodesMap', relationsMap') <= MaxItems
  /\ added' = Append(added, <<>>)
  /\ marked' = Append(marked, {})
  /\ last' = Call("constructor", NoError)
  /\ UNCHANGED <<metaVars, ingestVars>>

InstanceNext ==
  \/ Construct
  \/ AddRealDependency
  \/ AddImpliedDependency
  \/ CreateInterDependency

InstanceSpec == Init /\ [][InstanceNext]_vars

----------------------------------------------------------------------------
(* The static methods applied to metadata and tokens of bounded length *)

(* The longest name and the longest version *)
MaxTextLen == 2

TextChars == {"a", "1", "@"}

RECURSIVE Texts(_)
Texts(n) ==
  IF n = 0 THEN {<<>>}
  ELSE Texts(n - 1) \cup {Append(t, c) : t \in Texts(n - 1), c \in TextChars}

MetadataInputs ==
  {DependencyMetadata(n, v) : n \in Texts(MaxTextLen), v \in Texts(MaxTextLen)}

Tokens == Texts(MaxTextLen + 1)

(* Either metadata to stringify and parse back, or a token to parse *)
MetaInit ==
  /\ nodesMap = <<EmptyObject>>
  /\ relationsMap = <<EmptyObject>>
  /\ added = << <<>> >>
  /\ marked = << {} >>
  /\ last = Call("constructor", NoError)
  /\ \/ metadata \in MetadataInputs /\ token = <<>>
     \/ metadata = EmptyObject /\ token \in Tokens
  /\ parsed = EmptyObject
  /\ installed = <<>>

StringifyDependencyMetadata ==
  /\ last.op = "constructor"
  /\ metadata # EmptyObject
  /\ token' = stringifyDependencyMetadata(metadata)
  /\ last' = Call("stringifyDependencyMetadata", NoError)
  /\ UNCHANGED <<nodesMap, relationsMap, added, marked, metadata, parsed, ingestVars>>

ParseDependencyMetadata ==
  /\ \/ last.op = "stringifyDependencyMetadata"
     \/ last.op = "constructor" /\ metadata = EmptyObject
  /\ parsed' = parseDependencyMetadata(token)
  /\ last' = Call("parseDependencyMetadata", NoError)
  /\ UNCHANGED <<nodesMap, relationsMap, added, marked, metadata, token, ingestVars>>

MetaNext ==
  \/ StringifyDependencyMetadata
  \/ ParseDependencyMetadata

MetaSpec == MetaInit /\ [][MetaNext]_vars

----------------------------------------------------------------------------
(* generateDeclaredDependenciesGraph on the dependency JSON files of a     *)
(* project.  last holds the step that ran last and the error it threw: a   *)
(* step that throws rejects the promise, and nothing runs after it.        *)

(* The installed dependencies of the project *)
MaxInstalled == 2

PackageNames == {<<"a">>, <<"b">>}

(* The dependencies field of a JSON: nothing, one name, or "a" and "b" *)
DeclaredDependencies ==
  {EmptyObject}
    \cup {[props |-> <<[key |-> n, value |-> r]>>] : n \in PackageNames, r \in Versions}
    \cup {[props |-> <<[key |-> <<"a">>, value |-> r1], [key |-> <<"b">>, value |-> r2]>>] :
            r1 \in Versions, r2 \in Versions}

DependencyJsons ==
  {[name |-> n, version |-> v, dependencies |-> d] :
     n \in PackageNames, v \in Versions, d \in DeclaredDependencies}

RECURSIVE InstalledSets(_)
InstalledSets(n) ==
  IF n = 0 THEN {<<>>}
  ELSE InstalledSets(n - 1)
         \cup {Append(q, j) : q \in {x \in InstalledSets(n - 1) : Len(x) = n - 1},
                              j \in DependencyJsons}

(* const dependencyGraph = new DependencyGraph(), and the JSON files that  *)
(* readInstalledDependenciesJson will read                                 *)
IngestInit ==
  /\ nodesMap = <<EmptyObject>>
  /\ relationsMap = <<EmptyObject>>
  /\ added = << <<>> >>
  /\ marked = << {} >>
  /\ last = Call("constructor", NoError)
  /\ metadata = EmptyObject
  /\ token = <<>>
  /\ parsed = EmptyObject
  /\ installed \in InstalledSets(MaxInstalled)

(* The graph after a step of the ingestion with outcome r *)
IngestStep(op, r) ==
  /\ nodesMap' = [nodesMap EXCEPT ![1] = r.nodes]
  /\ relationsMap' = [relationsMap EXCEPT ![1] = r.relations]
  /\ last' = Call(op, r.error)
  /\ UNCHANGED <<added, marked, metaVars, ingestVars>>

RegisterDeclaredDependencies ==
  /\ last = Call("constructor", NoError)
  /\ IngestStep("registerDeclaredDependencies",
                registerDeclaredDependencies(Graph(1), installed))

RegisterImpliedDependencies ==
  /\ last = Call("registerDeclaredDependencies", NoError)
  /\ IngestStep("registerImpliedDependencies",
                registerImpliedDependencies(Graph(1)))

(* The loop over listAllRealDependencies(), then Promise.resolve *)
CreateInterDependencies ==
  /\ last = Call("registerImpliedDependencies", NoError)
  /\ IngestStep("generateDeclaredDependenciesGraph",
                createInterDependencies(Graph(1), listAllRealDependencies(Graph(1))))

IngestNext ==
  \/ RegisterDeclaredDependencies
  \/ RegisterImpliedDependencies
  \/ CreateInterDependencies

IngestSpec == IngestInit /\ [][IngestNext]_vars

----------------------------------------------------------------------------
(* What the claims speak of *)

(* The call that created the node named n (ignoring case), if any *)
Creations(g, n) ==
  {i \in 1..Len(added[g]) : toLowerCase(added[g][i].name) = toLowerCase(n)}

NodeAdded(g, n) == Creations(g, n) # {}

(* v is the object d that was stored, whose aliases array may have grown *)
IsPrefix(p, q) == Len(p) <= Len(q) /\ SubSeq(q, 1, Len(p)) = p

IsStoredObject(v, d) ==
  /\ DOMAIN v = DOMAIN d
  /\ \A f \in DOMAIN d \ {"aliases"} : v[f] = d[f]
  /\ "aliases" \in DOMAIN d => IsPrefix(d.aliases, v.aliases)

(* The node n of G was added with an aliases array *)
HasAliases(G, n) == "aliases" \in DOMAIN getInternalNode(G, n).value

(* The real dependencies among the successful additions to g *)
RealAdded(g) == {i \in 1..Len(added[g]) : "version" \in DOMAIN added[g][i].data}

(* An object as the mapping it is, keys compared ignoring case *)
FoldedEntries(o) ==
  {<<toLowerCase(o.props[i].key), o.props[i].value>> : i \in 1..Len(o.props)}

(* The edges from the node f to the node t that f's bucket holds *)
EdgesBetween(G, f, t) ==
  LET bucket == getRelation(G.relations, f)
  IN IF bucket = Undefined THEN {}
     ELSE {i \in 1..Len(bucket.props) :
             toLowerCase(bucket.props[i].key) = toLowerCase(t)}

----------------------------------------------------------------------------
(* C1: addInternalNode(n, d) and addRealDependency({name: n, ...}, d) fail *)
(* with the already-exists error naming n whenever a node whose name       *)
(* equals n ignoring case has been added, and the failing call leaves the  *)
(* node map and the relation map as they were.                             *)
C1_AddExistingFails ==
  \A g \in Graphs, n \in Names, d \in Data, v \in Versions :
    NodeAdded(g, n) =>
      /\ addInternalNode(Graph(g), n, NodeObject(n, d))
           = Threw(Graph(g), nodeAlreadyExistsErr(n))
      /\ addRealDependency(Graph(g), n, v, d)
           = Threw(Graph(g), nodeAlreadyExistsErr(n))

(* A node added as "a", which holds an edge, was added again as "A" *)
C1_Witness ==
  \E g \in Graphs :
    /\ Len(added[g]) = 1
    /\ added[g][1].name = <<"a">>
    /\ EdgeCount(relationsMap[g]) > 0
    /\ last = Call("addRealDependency", nodeAlreadyExistsErr(<<"A">>))

(* C2: when no node named n (ignoring case) exists, addInternalNode(n, d)  *)
(* succeeds, and then hasInternalNode(n) is true, getInternalNode(n)       *)
(* returns d and listInternalDependencies(n) is the empty mapping.         *)
C2_AddNewSucceeds ==
  \A g \in Graphs, n \in Names, d \in Data :
    ~NodeAdded(g, n) =>
      LET r == addInternalNode(Graph(g), n, NodeObject(n, d))
      IN /\ r.error = NoError
         /\ hasInternalNode(After(r), n)
         /\ getInternalNode(After(r), n) = Returns(NodeObject(n, d))
         /\ listInternalDependencies(After(r), n) = Returns(EmptyObject)

(* A second node has just been added: its bucket is empty while the first  *)
(* node's bucket holds an edge                                             *)
C2_Witness ==
  \E g \in Graphs :
    /\ Len(added[g]) = 2
    /\ last = Call("addInternalNode", NoError)
    /\ EdgeCount(relationsMap[g]) > 0
    /\ listInternalDependencies(Graph(g), added[g][2].name) = Returns(EmptyObject)
    /\ getInternalNode(Graph(g), added[g][2].name) = Returns(added[g][2].data)

(* C3: getInternalNode(n) fails with the not-found error naming n exactly  *)
(* when no node named n has been added (hasInternalNode(n) is false), and  *)
(* otherwise returns the object stored by the call that created n.         *)
C3_GetNode ==
  \A g \in Graphs, n \in Names :
    LET r == getInternalNode(Graph(g), n)
    IN /\ hasInternalNode(Graph(g), n) = NodeAdded(g, n)
       /\ ~NodeAdded(g, n) => r = Throws(noNodeFoundErr(n))
       /\ NodeAdded(g, n) =>
            /\ r.error = NoError
            /\ \A i \in Creations(g, n) : IsStoredObject(r.value, added[g][i].data)

(* The node added as "a" is read back as "A" after its aliases grew, and  *)
(* "1" is unknown                                                          *)
C3_Witness ==
  \E g \in Graphs :
    /\ Len(added[g]) = 1
    /\ added[g][1].name = <<"a">>
    /\ last = Call("addImpliedDependency", NoError)
    /\ getInternalNode(Graph(g), <<"A">>).error = NoError
    /\ getInternalNode(Graph(g), <<"A">>).value # added[g][1].data
    /\ getInternalNode(Graph(g), <<"1">>) = Throws(noNodeFoundErr(<<"1">>))

(* C4: markInternalDependency(from, to, data) fails with the not-found     *)
(* error naming from whenever from is missing, also when to is missing as  *)
(* well, and with the not-found error naming to when only to is missing.   *)
C4_MarkChecksFromFirst ==
  \A g \in Graphs, from \in Names, to \in Names, data \in Versions :
    LET r == markInternalDependency(Graph(g), from, to, data)
    IN /\ ~NodeAdded(g, from) => r.error = noNodeFoundErr(from)
       /\ (NodeAdded(g, from) /\ ~NodeAdded(g, to)) => r.error = noNodeFoundErr(to)

(* Only "1" has been added and a call from "a" failed naming "a": whatever *)
(* its to was, and to was missing too when it was "a" or "A"               *)
C4_Witness ==
  \E g \in Graphs :
    /\ Len(added[g]) = 1
    /\ added[g][1].name = <<"1">>
    /\ last = Call("markInternalDependency", noNodeFoundErr(<<"a">>))

(* C5: markInternalDependency on two existing nodes sets the edge from ->  *)
(* to to data; there is at most one edge per pair of nodes, and its        *)
(* payload is that of the most recent call for the pair.                   *)
C5_OneEdgePerPair ==
  \A g \in Graphs : \A m \in marked[g] :
    LET bucket == getRelation(Graph(g).relations, m.from)
        edges == EdgesBetween(Graph(g), m.from, m.to)
    IN /\ Cardinality(edges) = 1
       /\ \A i \in edges : bucket.props[i].value = m.data

(* C6: listInternalDependencies(of) and listDependenciesOfDependency(of)   *)
(* fail with the not-found error when no node named of exists.             *)
C6_ListUnknownFails ==
  \A g \in Graphs, of \in Names :
    ~NodeAdded(g, of) =>
      /\ listInternalDependencies(Graph(g), of) = Throws(noNodeFoundErr(of))
      /\ listDependenciesOfDependency(Graph(g), of) = Throws(noNodeFoundErr(of))

(* C7: listInternalDependants(n) is exactly the mapping from every node X  *)
(* with an edge to the node n to the payload of that edge.                 *)
C7_DependantsExact ==
  \A g \in Graphs, n \in Names :
    FoldedEntries(listInternalDependants(Graph(g), n))
      = {<<m.from, m.data>> : m \in {x \in marked[g] : x.to = toLowerCase(n)}}

(* C8: hasInternalDependency(from, to) is false when from was never added  *)
(* and true exactly when an edge from the node from to the node to has     *)
(* been marked.                                                            *)
C8_HasDependency ==
  \A g \in Graphs, from \in Names, to \in Names :
    /\ hasInternalDependency(Graph(g), from, to) \in BOOLEAN
    /\ ~NodeAdded(g, from) => ~hasInternalDependency(Graph(g), from, to)
    /\ hasInternalDependency(Graph(g), from, to)
         = (\E m \in marked[g] :
              m.from = toLowerCase(from) /\ m.to = toLowerCase(to))

(* C9: after addInternalNode(n, x), for every m equal to n ignoring case,  *)
(* hasInternalNode(m) is true, getInternalNode(m) returns x, and           *)
(* listInternalDependencies(m) and markInternalDependency(m, ...) read and *)
(* write the bucket of n.                                                  *)
C9_NodeLookupsIgnoreCase ==
  \A g \in Graphs : \A i \in 1..Len(added[g]) :
    \A m \in {x \in Names : toLowerCase(x) = toLowerCase(added[g][i].name)} :
      LET n == added[g][i].name
      IN /\ hasInternalNode(Graph(g), m)
         /\ getInternalNode(Graph(g), m).error = NoError
         /\ IsStoredObject(getInternalNode(Graph(g), m).value, added[g][i].data)
         /\ listInternalDependencies(Graph(g), m).value # Undefined
         /\ listInternalDependencies(Graph(g), m)
              = listInternalDependencies(Graph(g), n)
         /\ \A t \in Names, p \in Versions :
              LET rm == markInternalDependency(Graph(g), m, t, p)
              IN /\ rm = markInternalDependency(Graph(g), n, t, p)
                 /\ rm.error = NoError =>
                      LET deps == listInternalDependencies(After(rm), n).value
                      IN hasOwnProperty(deps, t) /\ PropertyGet(deps, t) = p

(* The node was added as "A"; it is found as "a", and its bucket, read as  *)
(* "a", holds the edge just marked                                         *)
C9_Witness ==
  \E g \in Graphs :
    /\ Len(added[g]) = 1
    /\ added[g][1].name = <<"A">>
    /\ hasInternalNode(Graph(g), <<"a">>)
    /\ getInternalNode(Graph(g), <<"a">>) = Returns(added[g][1].data)
    /\ last = Call("markInternalDependency", NoError)
    /\ Len(listInternalDependencies(Graph(g), <<"a">>).value.props) = 1

(* C10: after markInternalDependency(f, t, p), for every u equal to t      *)
(* ignoring case, hasInternalDependency(f, u) is true,                     *)
(* listInternalDependants(u) holds f with payload p, and a later           *)
(* markInternalDependency(f, u, q) overwrites that edge and adds no second *)
(* edge from f.                                                            *)
C10_EdgeLookupsIgnoreCase ==
  \A g \in Graphs : \A m \in marked[g] :
    \A u \in {x \in Names : toLowerCase(x) = m.to} :
      /\ hasInternalDependency(Graph(g), m.from, u)
      /\ <<m.from, m.data>> \in FoldedEntries(listInternalDependants(Graph(g), u))
      /\ \A q \in Versions :
           LET r == markInternalDependency(Graph(g), m.from, u, q)
           IN EdgeCount(r.relations) = EdgeCount(Graph(g).relations)

(* C11: listInternalNodes and listDependencies yield every node name in   *)
(* the letter case that was used when the node was added.                  *)
C11_ListKeepsCase ==
  \A g \in Graphs : \A i \in 1..Len(added[g]) :
    /\ contains(added[g][i].name, listInternalNodes(Graph(g)))
    /\ contains(added[g][i].name, listDependencies(Graph(g)))

(* C12: listInternalNodes returns the node names (compared ignoring case)  *)
(* in the order in which the nodes were added, whatever the names are.     *)
C12_ListInInsertionOrder ==
  \A g \in Graphs :
    LET listed == listInternalNodes(Graph(g))
    IN [i \in 1..Len(listed) |-> toLowerCase(listed[i])]
         = [i \in 1..Len(added[g]) |-> toLowerCase(added[g][i].name)]

(* C13: after a successful addRealDependency({name: n, version: v}, d),    *)
(* getDependencyData(n) is d, getDependencyVersion(n) is v and             *)
(* getDependencyAliases(n) is the one-element sequence [v].                *)
C13_RealDependencyReadBack ==
  \A g \in Graphs, n \in Names, v \in Versions, d \in Data :
    LET r == addRealDependency(Graph(g), n, v, d)
    IN r.error = NoError =>
         /\ getDependencyData(After(r), n) = Returns(d)
         /\ getDependencyVersion(After(r), n) = Returns(v)
         /\ getDependencyAliases(After(r), n) = Returns(<<v>>)

(* A real dependency has just been added beside an earlier node, and reads *)
(* back with its version as its only alias                                 *)
C13_Witness ==
  \E g \in Graphs :
    /\ Len(added[g]) = 2
    /\ 2 \in RealAdded(g)
    /\ last = Call("addRealDependency", NoError)
    /\ getDependencyVersion(Graph(g), added[g][2].name) = Returns("^2")
    /\ getDependencyAliases(Graph(g), added[g][2].name) = Returns(<<"^2">>)
    /\ getDependencyData(Graph(g), added[g][2].name) \in {Returns(d) : d \in Data}

(* C14: addImpliedDependency({name: n, version: v}) on an existing node n  *)
(* whose aliases do not contain v succeeds and appends v at the end of n's *)
(* aliases, keeping the earlier aliases in their order.                    *)
C14_ImpliedAppends ==
  \A g \in Graphs, n \in Names, v \in Versions :
    (/\ NodeAdded(g, n)
     /\ HasAliases(Graph(g), n)
     /\ ~contains(v, getDependencyAliases(Graph(g), n).value)) =>
      LET r == addImpliedDependency(Graph(g), n, v)
      IN /\ r.error = NoError
         /\ getDependencyAliases(After(r), n)
              = Returns(Append(getDependencyAliases(Graph(g), n).value, v))
         /\ r.relations = Graph(g).relations

(* The alias "^2" has just been appended behind the real version "1.0"     *)
C14_Witness ==
  \E g \in Graphs :
    /\ last = Call("addImpliedDependency", NoError)
    /\ Len(added[g]) = 1
    /\ 1 \in RealAdded(g)
    /\ getDependencyVersion(Graph(g), added[g][1].name) = Returns("1.0")
    /\ getDependencyAliases(Graph(g), added[g][1].name) = Returns(<<"1.0", "^2">>)

(* C15: addImpliedDependency({name: n, version: v}) fails with the         *)
(* version-already-exists error whenever v is among n's aliases, the real  *)
(* version included, and leaves the graph as it was.                       *)
C15_ImpliedDuplicateFails ==
  \A g \in Graphs, n \in Names, v \in Versions :
    (/\ NodeAdded(g, n)
     /\ HasAliases(Graph(g), n)
     /\ contains(v, getDependencyAliases(Graph(g), n).value)) =>
      addImpliedDependency(Graph(g), n, v)
        = Threw(Graph(g), versionAlreadyExistsErr(n, v))

(* The real version "1.0" of the node added as "a" was offered again as an *)
(* alias of "A"                                                            *)
C15_Witness ==
  \E g \in Graphs :
    /\ Len(added[g]) = 1
    /\ added[g][1].name = <<"a">>
    /\ 1 \in RealAdded(g)
    /\ getDependencyVersion(Graph(g), <<"a">>) = Returns("1.0")
    /\ last = Call("addImpliedDependency", versionAlreadyExistsErr(<<"A">>, "1.0"))

(* C16: addImpliedDependency({name: n, version: v}) fails with the         *)
(* not-found error naming n when no node n exists, and creates neither a   *)
(* node nor an alias list.                                                 *)
C16_ImpliedUnknownFails ==
  \A g \in Graphs, n \in Names, v \in Versions :
    ~NodeAdded(g, n) =>
      /\ addImpliedDependency(Graph(g), n, v) = Threw(Graph(g), noNodeFoundErr(n))
      /\ ~hasInternalNode(After(addImpliedDependency(Graph(g), n, v)), n)

(* Beside an existing node, an alias was offered for the unknown "1"       *)
C16_Witness ==
  \E g \in Graphs :
    /\ Len(added[g]) = 1
    /\ ~NodeAdded(g, <<"1">>)
    /\ last = Call("addImpliedDependency", noNodeFoundErr(<<"1">>))

(* C19: createInterDependency(from, {name, version}) gives the outcome of  *)
(* markInternalDependency(from, name, version): the same error, or the     *)
(* same edge from -> name with payload version, and the same graph.        *)
C19_CreateIsMark ==
  \A g \in Graphs, from \in Names, name \in Names, version \in Versions :
    LET c == createInterDependency(Graph(g), from,
                                   [name |-> name, version |-> version])
        m == markInternalDependency(Graph(g), from, name, version)
    IN /\ c.error = m.error
       /\ c.nodes = m.nodes
       /\ c.relations = m.relations
       /\ c.error = NoError =>
            PropertyGet(listInternalDependencies(After(c), from).value, name)
              = version

(* createInterDependency has just marked an edge between two nodes         *)
C19_Witness ==
  \E g \in Graphs :
    /\ Len(added[g]) = 2
    /\ last = Call("createInterDependency", NoError)
    /\ EdgeCount(relationsMap[g]) = 1

(* The text before the first "@" of t (all of t when it has none) *)
BeforeAt(t) == splitAtFirst("@", t)[1]

(* The text after the first "@" of t *)
AfterAt(t) == splitAtFirst("@", t)[2]

HasAt(t) == \E i \in 1..Len(t) : t[i] = "@"

NameOf(o) == PropertyGet(o, <<"n", "a", "m", "e">>)

VersionOf(o) == PropertyGet(o, <<"v", "e", "r", "s", "i", "o", "n">>)

(* C17 as stated: for every {name, version} whose version contains no     *)
(* "@", stringifyDependencyMetadata({name, version}) is the token          *)
(* name@version and parseDependencyMetadata of that token is {name,        *)
(* version} again.                                                         *)
C17_RoundTripVersionWithoutAt ==
  (metadata # EmptyObject /\ ~HasAt(VersionOf(metadata))) =>
    /\ last.op # "constructor" =>
         token = NameOf(metadata) \o <<"@">> \o VersionOf(metadata)
    /\ last.op = "parseDependencyMetadata" => parsed = metadata

(* C17 amended: for every {name, version},                                 *)
(* stringifyDependencyMetadata({name, version}) is the token name@version; *)
(* when neither name nor version contains "@", parseDependencyMetadata of  *)
(* that token is {name, version} again.                                    *)
C17_RoundTrip ==
  metadata # EmptyObject =>
    /\ last.op # "constructor" =>
         token = NameOf(metadata) \o <<"@">> \o VersionOf(metadata)
    /\ (/\ last.op = "parseDependencyMetadata"
        /\ ~HasAt(NameOf(metadata))
        /\ ~HasAt(VersionOf(metadata))) => parsed = metadata

(* Metadata free of "@" was stringified and parsed back to itself          *)
C17_Witness ==
  /\ last = Call("parseDependencyMetadata", NoError)
  /\ metadata \in MetadataInputs
  /\ Len(NameOf(metadata)) = MaxTextLen
  /\ Len(VersionOf(metadata)) = MaxTextLen
  /\ ~HasAt(NameOf(metadata)) /\ ~HasAt(VersionOf(metadata))
  /\ token = NameOf(metadata) \o <<"@">> \o VersionOf(metadata)
  /\ parsed = metadata

(* C18 as stated: parseDependencyMetadata cuts its token at the first "@"  *)
(* only: name is the text before it and version all the text after it,     *)
(* later "@" included.                                                     *)
C18_ParseCutsAtFirstOnly ==
  (last.op = "parseDependencyMetadata" /\ HasAt(token)) =>
    /\ NameOf(parsed) = BeforeAt(token)
    /\ VersionOf(parsed) = AfterAt(token)

(* C18 amended: parseDependencyMetadata cuts its token at every "@" and    *)
(* keeps the first two pieces: name is the text before the first "@" and   *)
(* version is the text between the first "@" and the second (or the end of *)
(* the token); the text from a second "@" on is dropped.                   *)
C18_ParseKeepsTwoPieces ==
  (last.op = "parseDependencyMetadata" /\ HasAt(token)) =>
    /\ NameOf(parsed) = BeforeAt(token)
    /\ VersionOf(parsed) = BeforeAt(AfterAt(token))
    /\ Len(parsed.props) = 2

(* A token with two "@" was parsed: version stops at the second            *)
C18_Witness ==
  /\ last = Call("parseDependencyMetadata", NoError)
  /\ metadata = EmptyObject
  /\ token = <<"a", "@", "@">>
  /\ NameOf(parsed) = <<"a">>
  /\ VersionOf(parsed) = <<>>

(* generateDeclaredDependenciesGraph has resolved or rejected *)
IngestionOver ==
  \/ last.op = "generateDeclaredDependenciesGraph"
  \/ last.op # "constructor" /\ last.error # NoError

(* No two installed packages have the same name *)
DistinctInstalled ==
  \A i \in 1..Len(installed), j \in 1..Len(installed) :
    installed[i].name = installed[j].name => i = j

(* Every declared dependency is installed *)
DeclaredAreInstalled ==
  \A i \in 1..Len(installed) :
    \A k \in 1..Len(installed[i].dependencies.props) :
      \E j \in 1..Len(installed) :
        installed[j].name = installed[i].dependencies.props[k].key

(* C20: ingesting an installed set in which every declared dependency is   *)
(* installed resolves with one real node per installed package with its    *)
(* manifest version, and for every installed X and every (name, range) X   *)
(* declares, range is among name's aliases and                             *)
(* listDependenciesOfDependency(X) maps name to range.                     *)
C20_IngestionYieldsGraph ==
  (IngestionOver /\ DistinctInstalled /\ DeclaredAreInstalled) =>
    /\ last = Call("generateDeclaredDependenciesGraph", NoError)
    /\ Len(listAllRealDependencies(Graph(1))) = Len(installed)
    /\ \A i \in 1..Len(installed) :
         LET X == installed[i]
         IN /\ getDependencyVersion(Graph(1), X.name) = Returns(X.version)
            /\ \A k \in 1..Len(X.dependencies.props) :
                 LET name == X.dependencies.props[k].key
                     range == X.dependencies.props[k].value
                 IN /\ contains(range, getDependencyAliases(Graph(1), name).value)
                    /\ PropertyGet(listDependenciesOfDependency(Graph(1), X.name).value,
                                   name) = range

(* The storage of instance g is the same before and after the step *)
StorageKept(g) ==
  /\ nodesMap'[g] = nodesMap[g]
  /\ relationsMap'[g] = relationsMap[g]

(* C21: two graph instances never share storage: a call on one instance,   *)
(* successful or failing, leaves the nodes, aliases and relations of every *)
(* other instance as they were, and a new instance starts with no nodes    *)
(* and no relations.                                                       *)
C21_InstancesIsolated ==
  [][/\ \A g \in Graphs : \A h \in Graphs \ {g} :
          \/ StorageKept(g)
          \/ StorageKept(h)
      /\ \A i \in Graphs :
           (added'[i] # added[i] \/ marked'[i] # marked[i]) =>
             \A j \in Graphs \ {i} : StorageKept(j)
      /\ DOMAIN nodesMap' # Graphs =>
           /\ \A k \in Graphs : StorageKept(k)
           /\ \A n \in DOMAIN nodesMap' \ Graphs :
                /\ nodesMap'[n] = EmptyObject
                /\ relationsMap'[n] = EmptyObject
                /\ listDependencies([nodes |-> nodesMap'[n],
                                     relations |-> relationsMap'[n]]) = <<>>]_vars

(* Two instances hold a node under the same name with different versions: *)
(* the second was added although the first instance has a node of that     *)
(* name                                                                    *)
C21_Witness ==
  /\ Len(nodesMap) = 2
  /\ last = Call("addRealDependency", NoError)
  /\ getDependencyVersion(Graph(1), <<"a">>) = Returns("1.0")
  /\ getDependencyVersion(Graph(2), <<"A">>) = Returns("^2")

(* C22: a markInternalDependency(from, to, payload) that fails with the    *)
(* not-found error, from missing or from present and to missing, leaves    *)
(* every relation bucket, from's included, and every node as it was; only  *)
(* a call that passes both checks writes.                                  *)
C22_FailedMarkChangesNothing ==
  \A g \in Graphs, from \in Names, to \in Names, data \in Versions :
    LET r == markInternalDependency(Graph(g), from, to, data)
    IN /\ (~NodeAdded(g, from) \/ ~NodeAdded(g, to)) =>
            /\ r.error \in {noNodeFoundErr(from), noNodeFoundErr(to)}
            /\ After(r) = Graph(g)
       /\ After(r) # Graph(g) => r.error = NoError

(* From the node "a", whose bucket holds an edge, an edge to the missing   *)
(* "1" was refused                                                         *)
C22_Witness ==
  \E g \in Graphs :
    /\ Len(added[g]) = 1
    /\ added[g][1].name = <<"a">>
    /\ EdgeCount(relationsMap[g]) = 1
    /\ last = Call("markInternalDependency", noNodeFoundErr(<<"1">>))

(* Every bucket of G belongs to a node of G, and every key of a bucket     *)
(* names a node of G                                                       *)
EdgesSound(G) ==
  \A i \in 1..Len(G.relations.props) :
    /\ hasInternalNode(G, G.relations.props[i].key)
    /\ \A k \in 1..Len(G.relations.props[i].value.props) :
         hasInternalNode(G, G.relations.props[i].value.props[k].key)

AllEdgesSound == \A g \in Graphs : EdgesSound(Graph(g))

(* A step of markInternalDependency or createInterDependency leaves the    *)
(* node map of every graph as it was                                       *)
EdgeStepKeepsNodes ==
  last'.op \in {"markInternalDependency", "createInterDependency"} =>
    nodesMap' = nodesMap

(* C23: in every state reached through addInternalNode, addRealDependency, *)
(* addImpliedDependency, markInternalDependency and createInterDependency, *)
(* every stored edge has a source and a target that both name existing     *)
(* nodes, and a step that creates an edge creates no node.                 *)
C23_EdgesJoinExistingNodes ==
  [][AllEdgesSound' /\ EdgeStepKeepsNodes]_vars

(* createInterDependency has just stored an edge from "1" under the target *)
(* key "A", which names the node stored as "a"                             *)
C23_Witness ==
  \E g \in Graphs :
    /\ last = Call("createInterDependency", NoError)
    /\ listInternalNodes(Graph(g)) = <<<<"1">>, <<"a">>>>
    /\ KeyList(getRelation(relationsMap[g], <<"1">>)) = <<<<"A">>>>

(* No two of the names listed for G are equal ignoring case *)
NamesUnique(G) ==
  LET listed == listInternalNodes(G)
  IN \A i \in 1..Len(listed), j \in 1..Len(listed) :
       toLowerCase(listed[i]) = toLowerCase(listed[j]) => i = j

(* C24: in every reachable state the names listInternalNodes returns are   *)
(* unique ignoring letter case, and they stay so after addInternalNode and *)
(* after addRealDependency with a name in any casing.                      *)
C24_NamesUniqueIgnoringCase ==
  \A g \in Graphs :
    /\ NamesUnique(Graph(g))
    /\ Len(listInternalNodes(Graph(g))) = Len(added[g])
    /\ \A n \in Names, d \in Data, v \in Versions :
         /\ NamesUnique(After(addInternalNode(Graph(g), n, NodeObject(n, d))))
         /\ NamesUnique(After(addRealDependency(Graph(g), n, v, d)))

(* Two nodes are listed, one added as "A", and adding "a" has just been    *)
(* refused                                                                 *)
C24_Witness ==
  \E g \in Graphs :
    /\ Len(listInternalNodes(Graph(g))) = 2
    /\ \E i \in 1..Len(added[g]) : added[g][i].name = <<"A">>
    /\ last = Call("addInternalNode", nodeAlreadyExistsErr(<<"a">>))

(* Every node of G is a node of H, and every edge of G is an edge of H *)
NothingDeleted(G, H) ==
  /\ \A i \in 1..Len(G.nodes.props) : hasInternalNode(H, G.nodes.props[i].key)
  /\ \A i \in 1..Len(G.relations.props) :
       \A k \in 1..Len(G.relations.props[i].value.props) :
         hasInternalDependency(H, G.relations.props[i].key,
                               G.relations.props[i].value.props[k].key)

(* C25: nothing is ever deleted: a node that hasInternalNode finds and an  *)
(* edge that hasInternalDependency finds are still found after every       *)
(* further call, successful or failing; adding a node clears the bucket of *)
(* no existing node.                                                       *)
C25_NothingDeleted ==
  [][\A g \in Graphs :
       NothingDeleted(Graph(g),
                      [nodes |-> nodesMap'[g], relations |-> relationsMap'[g]])]_vars

(* A second node has just been added, and the edge the first node held     *)
(* before is still found                                                   *)
C25_Witness ==
  \E g \in Graphs :
    /\ Len(added[g]) = 2
    /\ last = Call("addInternalNode", NoError)
    /\ EdgeCount(relationsMap[g]) = 1
    /\ hasInternalDependency(Graph(g), added[g][1].name, added[g][1].name)

(* Every node of H has its version among its aliases, and the aliases a    *)
(* node has in G are the first of those it has in H                        *)
AliasesGrow(G, H) ==
  \A i \in 1..Len(H.nodes.props) :
    LET n == H.nodes.props[i].key
    IN /\ contains(getDependencyVersion(H, n).value, getDependencyAliases(H, n).value)
       /\ hasInternalNode(G, n) =>
            IsPrefix(getDependencyAliases(G, n).value, getDependencyAliases(H, n).value)

(* C26: for every node created by addRealDependency, in every reachable    *)
(* state its aliases contain its version, and the aliases it has before a  *)
(* step are a prefix of those it has after the step.                       *)
C26_AliasesOnlyGrow ==
  [][\A g \in Graphs :
       AliasesGrow(Graph(g),
                   [nodes |-> nodesMap'[g], relations |-> relationsMap'[g]])]_vars

(* The first of two real dependencies has gained an alias behind its       *)
(* version "^2"                                                            *)
C26_Witness ==
  \E g \in Graphs :
    /\ Len(added[g]) = 2
    /\ last = Call("addImpliedDependency", NoError)
    /\ getDependencyVersion(Graph(g), added[g][1].name) = Returns("^2")
    /\ getDependencyAliases(Graph(g), added[g][1].name) = Returns(<<"^2", "1.0">>)

(* H differs from G at most in the aliases of the node named n *)
OnlyAliasesOf(G, H, n) ==
  /\ H.relations = G.relations
  /\ KeyList(H.nodes) = KeyList(G.nodes)
  /\ \A i \in 1..Len(G.nodes.props) :
       LET k == G.nodes.props[i].key
       IN /\ getDependencyData(H, k) = getDependencyData(G, k)
          /\ getDependencyVersion(H, k) = getDependencyVersion(G, k)
          /\ getInternalNode(H, k).value.name = getInternalNode(G, k).value.name
          /\ k # toLowerCase(n) => getInternalNode(H, k) = getInternalNode(G, k)

(* C27: addImpliedDependency({name: n, version: v}), successful or         *)
(* failing, changes at most the aliases of node n: the name, data and      *)
(* version of every node, the aliases of every other node, the set of      *)
(* nodes and every relation bucket are as before, and a failing call       *)
(* changes nothing.                                                        *)
C27_ImpliedTouchesOnlyAliases ==
  \A g \in Graphs, n \in Names, v \in Versions :
    LET r == addImpliedDependency(Graph(g), n, v)
    IN /\ OnlyAliasesOf(Graph(g), After(r), n)
       /\ r.error # NoError => After(r) = Graph(g)

(* The second of two real dependencies has gained an alias; the first has  *)
(* the one alias it was created with                                       *)
C27_Witness ==
  \E g \in Graphs :
    /\ Len(added[g]) = 2
    /\ last = Call("addImpliedDependency", NoError)
    /\ getInternalNode(Graph(g), added[g][1].name) = Returns(added[g][1].data)
    /\ Len(getDependencyAliases(Graph(g), added[g][2].name).value) = 2
    /\ getDependencyVersion(Graph(g), added[g][2].name)
         = Returns(added[g][2].data.version)

(* The (name, range) pairs the installed package i declares *)
Declared(i) ==
  {<<installed[i].dependencies.props[k].key, installed[i].dependencies.props[k].value>> :
     k \in 1..Len(installed[i].dependencies.props)}

IsInstalled(name) == \E j \in 1..Len(installed) : installed[j].name = name

(* How often x occurs in list *)
Occurrences(x, list) == Cardinality({i \in 1..Len(list) : list[i] = x})

C29_ImpliedRegistrationSucceeds ==
  /\ last.error.kind # "VersionAlreadyExists"
  /\ (/\ last.op \in {"registerImpliedDependencies", "generateDeclaredDependenciesGraph"}
      /\ DistinctInstalled
      /\ DeclaredAreInstalled) =>
       /\ last.op = "registerImpliedDependencies" => last.error = NoError
       /\ \A i \in 1..Len(installed) : \A p \in Declared(i) :
            Occurrences(p[2], getDependencyAliases(Graph(1), p[1]).value) = 1

(* C30: when an installed package declares a dependency on a name that is  *)
(* not installed, generateDeclaredDependenciesGraph fails in               *)
(* registerImpliedDependencies with the not-found error naming such a      *)
(* dependency, before any edge exists and without a node for that name.    *)
C30_MissingDependencyNotFound ==
  (IngestionOver /\ DistinctInstalled /\ ~DeclaredAreInstalled) =>
    /\ last.op = "registerImpliedDependencies"
    /\ last.error.kind = "NotFound"
    /\ \E i \in 1..Len(installed) : \E p \in Declared(i) :
         /\ ~IsInstalled(p[1])
         /\ last.error = noNodeFoundErr(p[1])
         /\ ~hasInternalNode(Graph(1), p[1])
    /\ EdgeCount(relationsMap[1]) = 0

====
